---- MODULE Spec2Model ----
(***************************************************************************)
(* Model of the TRC20 payment watcher of src/src/main.rs: the outer loop   *)
(* of main and the pass fetch_and_process_transactions, against a store    *)
(* (tables pay_records and user) and a paginated, newest-first feed.       *)
(*                                                                         *)
(* Amounts are BigDecimal values; they are held as integers counting units *)
(* of 10^-Scale.  Option<T> is a sequence: <<>> is None, <<x>> is Some(x). *)
(* A string that is parsed is a sequence of characters.                    *)
(***************************************************************************)
EXTENDS Integers, Sequences, FiniteSets, TLC

\* ---------------------------------------------------------------- bounds
\* rows ever inserted into pay_records
MaxRecords == 2
\* transfer events ever appended to the feed
MaxTransfers == 3
\* page size of the feed (limit=10 in the deployed URL, scaled down)
PageLimit == 2
\* rows of the user table
NumUsers == 2
\* events of the feed that are malformed or foreign
MaxDefects == 1

\* --------------------------------------------------------- number format
\* decimal places kept by the integer representation of a BigDecimal
Scale == 4

RECURSIVE Pow10(_)
Pow10(n) == IF n = 0 THEN 1 ELSE 10 * Pow10(n - 1)

\* BigInt division truncates toward zero
TruncDiv(a, b) == IF a >= 0 THEN a \div b ELSE -((-a) \div b)

\* BigDecimal::with_scale(3): the unscaled integer is divided by
\* 10^(scale-3), digits beyond the third decimal place are dropped.
\* The result counts units of 10^-3.
WithScale3(x) == TruncDiv(x, Pow10(Scale - 3))

\* BigDecimal::from(2)
Two == 2 * Pow10(Scale)

\* the characters of a value string: 0 .. 9 are the digits
Digits == 0 .. 9

RECURSIVE DigitsValue(_)
DigitsValue(s) == IF Len(s) = 0 THEN 0
                  ELSE 10 * DigitsValue(SubSeq(s, 1, Len(s) - 1)) + s[Len(s)]

\* BigDecimal::from_str(&value_str).unwrap_or_else(|_| BigDecimal::from(0))
ParseValue(s) == IF Len(s) > 0 /\ \A k \in 1 .. Len(s) : s[k] \in Digits
                 THEN DigitsValue(s)
                 ELSE 0

\* &value_decimal / &BigDecimal::from(10u64.pow(decimals)): the quotient is exact,
\* value * 10^-decimals; in units of 10^-Scale (decimals <= Scale in the feed
\* of the model)
ReadableAmount(value, decimals) == value * Pow10(Scale - decimals)

\* ------------------------------------------------------------ the inputs
Users == 1 .. NumUsers
WatchedAddress == "watched"
OtherAddress == "other"

\* pay_token of a new row: 100 and 100.0005
Amount100 == 100 * Pow10(Scale)
Amount100_0005 == 100 * Pow10(Scale) + 5 * Pow10(Scale - 4)
ExpectedAmounts == {Amount100, Amount100_0005}

USDT4 == <<[symbol |-> "USDT", decimals |-> 4]>>
USDT3 == <<[symbol |-> "USDT", decimals |-> 3]>>
OtherToken == <<[symbol |-> "TRX", decimals |-> 4]>>

\* the raw value strings of the feed: 98.5, 100.0002 (at 4 decimals)
Value985 == <<9, 8, 5, 0, 0, 0>>
Value1000002 == <<1, 0, 0, 0, 0, 0, 2>>
\* 100.000 at 3 decimals
Value100 == <<1, 0, 0, 0, 0, 0>>
\* a string with a character that is no digit (character 10)
BadValue == <<1, 10>>

RawBody(from, to, value, token_info) ==
    [from |-> from, to |-> to, value |-> value, token_info |-> token_info]

\* the event bodies the feed may carry
GoodBodies ==
    { RawBody(<<"payer">>, <<WatchedAddress>>, <<Value985>>, USDT4),
      RawBody(<<"payer">>, <<WatchedAddress>>, <<Value1000002>>, USDT4),
      RawBody(<<"payer">>, <<WatchedAddress>>, <<Value100>>, USDT3) }

DefectBodies ==
    { RawBody(<<>>, <<WatchedAddress>>, <<Value1000002>>, USDT4),
      RawBody(<<"payer">>, <<>>, <<Value1000002>>, USDT4),
      RawBody(<<"payer">>, <<OtherAddress>>, <<Value1000002>>, USDT4),
      RawBody(<<"payer">>, <<WatchedAddress>>, <<>>, USDT4),
      RawBody(<<"payer">>, <<WatchedAddress>>, <<BadValue>>, USDT4),
      RawBody(<<"payer">>, <<WatchedAddress>>, <<Value1000002>>, <<>>),
      RawBody(<<"payer">>, <<WatchedAddress>>, <<Value1000002>>, OtherToken) }

RawBodies == GoodBodies \cup DefectBodies

\* -------------------------------------------------------------- the state
VARIABLES
    pay_records,          \* table pay_records: row id is the index
    gold_coins,           \* table user: gold_coins of each user id
    chain,                \* the feed's events, oldest first
    pc,                   \* position of the process
    current_url,          \* [min_timestamp, fingerprint]: the page to request
    pending_amounts,      \* Vec<(i64, BigDecimal)>
    last_transaction_id,  \* Option<String>
    transaction_data,     \* the decoded page: [data, next, top]
    i,                    \* index of the record of the page being processed
    id,                   \* id of the matched row, 0 when none
    tx,                   \* the open store transaction, <<>> when none
    settlements,          \* history: committed settlements of each row
    shutdown              \* a shutdown of the loop has been requested

vars == <<pay_records, gold_coins, chain, pc, current_url, pending_amounts,
          last_transaction_id, transaction_data, i, id, tx, settlements,
          shutdown>>

store == <<pay_records, gold_coins>>
pass == <<current_url, pending_amounts, last_transaction_id, transaction_data, i, id, tx>>
history == <<settlements>>

\* gold_coins of the users before the first settlement: 1, 2, ...
InitialGoldCoins(u) == u * Pow10(Scale)

NoUrl == [min_timestamp |-> 0, fingerprint |-> 0]
NoPage == [data |-> <<>>, next |-> <<>>, top |-> 0]

Init ==
    /\ pay_records = <<>>
    /\ gold_coins = [u \in Users |-> InitialGoldCoins(u)]
    /\ chain = <<>>
    /\ pc = "main"
    /\ current_url = NoUrl
    /\ pending_amounts = <<>>
    /\ last_transaction_id = <<>>
    /\ transaction_data = NoPage
    /\ i = 0
    /\ id = 0
    /\ tx = <<>>
    /\ settlements = [r \in 1 .. MaxRecords |-> 0]
    /\ shutdown = FALSE


\* ------------------------------------------------------------- the store
Row(user_id, pay_token, create_time) ==
    [user_id |-> user_id, pay_token |-> pay_token, is_pay |-> 0,
     transaction_id |-> <<>>, pay_before_gold_coins |-> <<>>,
     pay_after_gold_coins |-> <<>>, create_time |-> create_time]

Ids == 1 .. Len(pay_records)
Unsettled == {r \in Ids : pay_records[r].is_pay = 0}
Settled == {r \in Ids : pay_records[r].is_pay = 1}

Min(S) == CHOOSE x \in S : \A y \in S : x <= y
Max(S) == CHOOSE x \in S : \A y \in S : x >= y

\* mutant: the WHERE is_pay = 0 of the load is lost
PendingRecordsAll ==
    [p \in Ids |-> <<p, pay_records[p].pay_token>>]

\* SELECT id, pay_token FROM pay_records WHERE is_pay = 0 ORDER BY id ASC
PendingRecords ==
    LET ids == SelectSeq([k \in Ids |-> k], LAMBDA k : pay_records[k].is_pay = 0)
    IN  [p \in 1 .. Len(ids) |-> <<ids[p], pay_records[ids[p]].pay_token>>]

\* mutant: the id < ? of the query is lost
LastTransactionAnyId(min_id) ==
    LET paid == {r \in Ids : pay_records[r].is_pay = 1}
    IN  IF paid = {} THEN <<>> ELSE pay_records[Max(paid)].transaction_id

\* SELECT transaction_id FROM pay_records WHERE id < ? AND is_pay = 1
\* ORDER BY id DESC LIMIT 1
LastTransaction(min_id) ==
    LET below == {r \in Ids : r < min_id /\ pay_records[r].is_pay = 1}
    IN  IF below = {} THEN <<>> ELSE pay_records[Max(below)].transaction_id

\* ---------------------------------------------------------------- the feed
\* An event of the feed: its transaction id and its body.  The block
\* timestamp of an event is its index in chain.
Event(tx_id, body) ==
    [tx_id |-> tx_id, from |-> body.from, to |-> body.to, value |-> body.value,
     token_info |-> body.token_info]

\* min_timestamp of the URL is the create_time of the oldest unsettled row; a
\* row created when n events exist has create_time n + 1, so its window holds
\* the events confirmed after its creation.
\* The page a request for url returns: the events of the window
\* (timestamp >= min_timestamp), newest first, at most PageLimit of them,
\* starting at the newest event or at the fingerprint of the next link.
PageTop(url) == IF url.fingerprint = 0 THEN Len(chain) ELSE url.fingerprint
PageBottom(url) ==
    LET low == PageTop(url) - PageLimit + 1
    IN  IF low < url.min_timestamp THEN url.min_timestamp ELSE low
PageOf(url) ==
    LET top == PageTop(url)
        bottom == PageBottom(url)
        n == IF top >= bottom THEN top - bottom + 1 ELSE 0
    IN  [data |-> [k \in 1 .. n |-> chain[top - k + 1]],
         next |-> IF n > 0 /\ bottom > url.min_timestamp THEN <<bottom - 1>> ELSE <<>>,
         top |-> top]

\* --------------------------------------------------------- the matching
\* mutant: the upper bound of the range is inclusive
IsCandidateInclusive(amount, readable_amount) ==
    /\ readable_amount >= amount - Two /\ readable_amount <= amount
    /\ WithScale3(amount) = WithScale3(readable_amount)

\* mutant: the comparison of the truncated amounts is lost
IsCandidateRangeOnly(amount, readable_amount) ==
    readable_amount >= amount - Two /\ readable_amount < amount

\* the closure of position() at main.rs:221-232
IsCandidate(amount, readable_amount) ==
    LET in_range == readable_amount >= amount - Two /\ readable_amount < amount
        amount_truncated == WithScale3(amount)
        readable_truncated == WithScale3(readable_amount)
        decimals_match == amount_truncated = readable_truncated
    IN  in_range /\ decimals_match

\* mutant: the last index is taken (rposition)
PositionLast(pending, readable_amount) ==
    LET hits == {p \in 1 .. Len(pending) : IsCandidate(pending[p][2], readable_amount)}
    IN  IF hits = {} THEN 0 ELSE Max(hits)

\* Iterator::position: the first index whose element satisfies the closure,
\* 0 for None
Position(pending, readable_amount) ==
    LET hits == {p \in 1 .. Len(pending) : IsCandidate(pending[p][2], readable_amount)}
    IN  IF hits = {} THEN 0 ELSE Min(hits)

\* Vec::remove(pos)
Remove(seq, pos) == [k \in 1 .. Len(seq) - 1 |-> IF k < pos THEN seq[k] ELSE seq[k + 1]]

\* the checks of main.rs:165-189: TRUE when the record is skipped (continue)
Skipped(transaction) ==
    \/ transaction.from = <<>>
    \/ transaction.to = <<>>
    \/ transaction.to # <<WatchedAddress>>
    \/ transaction.value = <<>>
    \/ transaction.token_info = <<>>
    \/ transaction.token_info[1].symbol # "USDT"

\* readable_amount of a record that is not skipped
ReadableOf(transaction) ==
    ReadableAmount(ParseValue(transaction.value[1]), transaction.token_info[1].decimals)

\* the stop test of main.rs:158-163
AtLastTransaction(transaction) ==
    last_transaction_id # <<>> /\ transaction.tx_id = last_transaction_id[1]

\* ------------------------------------------------------------ the process
\* main has returned Err: the process has ended, with the error of a query of
\* the loop or of the load, of the feed, or of the settlement
Exited == {"err_query", "err_feed", "err_settle"}

\* the locals of fetch_and_process_transactions are dropped
Locals ==
    /\ current_url' = NoUrl
    /\ pending_amounts' = <<>>
    /\ last_transaction_id' = <<>>
    /\ transaction_data' = NoPage
    /\ i' = 0
    /\ id' = 0
    /\ tx' = <<>>

\* mutant: the pass is called whatever the query of the loop returns
MainCheckAlways ==
    /\ pc = "main"
    /\ current_url' = [min_timestamp |-> IF Unsettled # {}
                                         THEN pay_records[Min(Unsettled)].create_time
                                         ELSE 1,
                       fingerprint |-> 0]
    /\ pc' = "load"
    /\ UNCHANGED <<store, chain, pending_amounts, last_transaction_id,
                   transaction_data, i, id, tx, history, shutdown>>

\* main.rs:69-100: the query of the loop of main, then the call or the sleep
MainCheck ==
    /\ pc = "main"
    /\ IF Unsettled # {}
       THEN /\ current_url' = [min_timestamp |-> pay_records[Min(Unsettled)].create_time,
                               fingerprint |-> 0]
            /\ pc' = "load"
       ELSE /\ pc' = "sleep"
            /\ UNCHANGED current_url
    /\ UNCHANGED <<store, chain, pending_amounts, last_transaction_id,
                   transaction_data, i, id, tx, history>>
    /\ UNCHANGED shutdown

\* main.rs:98: tokio::time::sleep(10 s)
Sleep ==
    /\ pc = "sleep"
    /\ pc' = "main"
    /\ UNCHANGED <<store, chain, pass, history>>
    /\ UNCHANGED shutdown

\* main.rs:113-148: the pending rows, min_id and the last transaction id.
\* The two queries are one step: rows inserted between them have larger ids
\* and is_pay = 0, so they do not change the answer of the second query.
LoadPending ==
    /\ pc = "load"
    /\ LET pending_records == PendingRecords
       IN  IF Len(pending_records) = 0
           THEN /\ pc' = "main"
                /\ Locals
           ELSE /\ pending_amounts' = pending_records
                /\ last_transaction_id' = LastTransaction(pending_records[1][1])
                /\ pc' = "fetch"
                /\ UNCHANGED <<current_url, transaction_data, i, id, tx>>
    /\ UNCHANGED <<store, chain, history>>
    /\ UNCHANGED shutdown

\* main.rs:75, 118, 134: a query of the store fails; `?` returns the error from main
QueryFails ==
    /\ pc \in {"main", "load"}
    /\ pc' = "err_query"
    /\ Locals
    /\ UNCHANGED <<store, chain, history>>
    /\ UNCHANGED shutdown

\* main.rs:151-156: the page is fetched and decoded (the page counter and the
\* 500 ms pause before the next request only feed the log and the clock)
FetchPage ==
    /\ pc = "fetch"
    /\ transaction_data' = PageOf(current_url)
    /\ i' = 1
    /\ pc' = "record"
    /\ UNCHANGED <<store, chain, current_url, pending_amounts, last_transaction_id,
                   id, tx, history>>
    /\ UNCHANGED shutdown

\* main.rs:297-300: a response whose status is no success: break, Ok(())
FetchNoSuccess ==
    /\ pc = "fetch"
    /\ pc' = "main"
    /\ Locals
    /\ UNCHANGED <<store, chain, history>>
    /\ UNCHANGED shutdown

\* main.rs:151, 153: reqwest::get or response.json fails; `?` returns the error
FetchError ==
    /\ pc = "fetch"
    /\ pc' = "err_feed"
    /\ Locals
    /\ UNCHANGED <<store, chain, history>>
    /\ UNCHANGED shutdown

\* main.rs:156-233: one iteration of the for loop, up to pending_amounts.remove
ProcessRecord ==
    /\ pc = "record"
    /\ i <= Len(transaction_data.data)
    /\ LET transaction == transaction_data.data[i]
       IN  IF AtLastTransaction(transaction)
           THEN /\ pc' = "main"
                /\ Locals
           ELSE IF Skipped(transaction)
           THEN /\ i' = i + 1
                /\ UNCHANGED <<pc, current_url, pending_amounts, last_transaction_id,
                               transaction_data, id, tx>>
           ELSE LET pos == Position(pending_amounts, ReadableOf(transaction))
                IN  IF pos = 0
                    THEN /\ i' = i + 1
                         /\ UNCHANGED <<pc, current_url, pending_amounts,
                                        last_transaction_id, transaction_data, id, tx>>
                    ELSE /\ id' = pending_amounts[pos][1]
                         /\ pending_amounts' = Remove(pending_amounts, pos)
                         /\ pc' = "begin"
                         /\ UNCHANGED <<current_url, last_transaction_id,
                                        transaction_data, i, tx>>
    /\ UNCHANGED <<store, chain, history>>
    /\ UNCHANGED shutdown

\* mutant: the test of the empty pending set is lost
PageEndIgnoresEmpty ==
    /\ pc = "record"
    /\ i > Len(transaction_data.data)
    /\ IF transaction_data.next # <<>>
       THEN /\ current_url' = [current_url EXCEPT !.fingerprint = transaction_data.next[1]]
            /\ transaction_data' = NoPage
            /\ i' = 0
            /\ pc' = "fetch"
            /\ UNCHANGED <<pending_amounts, last_transaction_id, id, tx>>
       ELSE /\ pc' = "main"
            /\ Locals
    /\ UNCHANGED <<store, chain, history, shutdown>>

\* mutant: current_url is not moved to the next link
PageEndSameUrl ==
    /\ pc = "record"
    /\ i > Len(transaction_data.data)
    /\ IF Len(pending_amounts) = 0
       THEN /\ pc' = "main"
            /\ Locals
       ELSE IF transaction_data.next # <<>>
       THEN /\ transaction_data' = NoPage
            /\ i' = 0
            /\ pc' = "fetch"
            /\ UNCHANGED <<current_url, pending_amounts, last_transaction_id, id, tx>>
       ELSE /\ pc' = "main"
            /\ Locals
    /\ UNCHANGED <<store, chain, history, shutdown>>

\* main.rs:283-296: after the last record of the page
PageEnd ==
    /\ pc = "record"
    /\ i > Len(transaction_data.data)
    /\ IF Len(pending_amounts) = 0
       THEN /\ pc' = "main"
            /\ Locals
       ELSE IF transaction_data.next # <<>>
       THEN /\ current_url' = [current_url EXCEPT !.fingerprint = transaction_data.next[1]]
            /\ transaction_data' = NoPage
            /\ i' = 0
            /\ pc' = "fetch"
            /\ UNCHANGED <<pending_amounts, last_transaction_id, id, tx>>
       ELSE /\ pc' = "main"
            /\ Locals
    /\ UNCHANGED <<store, chain, history>>
    /\ UNCHANGED shutdown

\* main.rs:236: pool.begin()
TxBegin ==
    /\ pc = "begin"
    /\ tx' = <<[user_id |-> 0, pay_before_gold_coins |-> 0, pay_after_gold_coins |-> 0,
                record |-> <<>>, user |-> <<>>]>>
    /\ pc' = "select"
    /\ UNCHANGED <<store, chain, current_url, pending_amounts, last_transaction_id,
                   transaction_data, i, id, history>>
    /\ UNCHANGED shutdown

\* main.rs:239-251: the owner and its gold_coins, the two snapshots
TxSelect ==
    /\ pc = "select"
    /\ LET user_id == pay_records[id].user_id
           current_gold_coins == gold_coins[user_id]
           readable_amount == ReadableOf(transaction_data.data[i])
       IN  tx' = <<[tx[1] EXCEPT !.user_id = user_id,
                                 !.pay_before_gold_coins = current_gold_coins,
                                 !.pay_after_gold_coins = current_gold_coins + readable_amount]>>
    /\ pc' = "update_record"
    /\ UNCHANGED <<store, chain, current_url, pending_amounts, last_transaction_id,
                   transaction_data, i, id, history>>
    /\ UNCHANGED shutdown

\* mutant: pay_token is left out of the SET list
UpdatedRowKeepsToken(row, transaction, t) ==
    [row EXCEPT !.transaction_id = <<transaction.tx_id>>,
                !.is_pay = 1,
                !.pay_before_gold_coins = <<t.pay_before_gold_coins>>,
                !.pay_after_gold_coins = <<t.pay_after_gold_coins>>]

\* mutant: transaction_id is left out of the SET list
UpdatedRowNoTransactionId(row, transaction, t) ==
    [row EXCEPT !.pay_token = ReadableOf(transaction),
                !.is_pay = 1,
                !.pay_before_gold_coins = <<t.pay_before_gold_coins>>,
                !.pay_after_gold_coins = <<t.pay_after_gold_coins>>]

\* mutant: pay_after_gold_coins is written from the snapshot taken before
UpdatedRowStaleAfter(row, transaction, t) ==
    [row EXCEPT !.transaction_id = <<transaction.tx_id>>,
                !.pay_token = ReadableOf(transaction),
                !.is_pay = 1,
                !.pay_before_gold_coins = <<t.pay_before_gold_coins>>,
                !.pay_after_gold_coins = <<t.pay_before_gold_coins>>]

\* main.rs:254-266: UPDATE pay_records, inside the transaction
UpdatedRow(row, transaction, t) ==
    [row EXCEPT !.transaction_id = <<transaction.tx_id>>,
                !.pay_token = ReadableOf(transaction),
                !.is_pay = 1,
                !.pay_before_gold_coins = <<t.pay_before_gold_coins>>,
                !.pay_after_gold_coins = <<t.pay_after_gold_coins>>]

TxUpdateRecord ==
    /\ pc = "update_record"
    /\ tx' = <<[tx[1] EXCEPT !.record =
                  <<UpdatedRow(pay_records[id], transaction_data.data[i], tx[1])>>]>>
    /\ pc' = "update_user"
    /\ UNCHANGED <<store, chain, current_url, pending_amounts, last_transaction_id,
                   transaction_data, i, id, history>>
    /\ UNCHANGED shutdown

\* main.rs:268-274: UPDATE user, inside the transaction
TxUpdateUser ==
    /\ pc = "update_user"
    /\ tx' = <<[tx[1] EXCEPT !.user = <<tx[1].pay_after_gold_coins>>]>>
    /\ pc' = "commit"
    /\ UNCHANGED <<store, chain, current_url, pending_amounts, last_transaction_id,
                   transaction_data, i, id, history>>
    /\ UNCHANGED shutdown

\* mutant: the UPDATE of user matches no row
CommittedCoinsNone(coins, t) == coins

\* what the store holds once the transaction t is committed
CommittedRecords(records, row_id, t) ==
    IF t.record # <<>> THEN [records EXCEPT ![row_id] = t.record[1]] ELSE records
CommittedCoins(coins, t) ==
    IF t.user # <<>> THEN [coins EXCEPT ![t.user_id] = t.user[1]] ELSE coins

\* mutant: the UPDATE of pay_records runs outside the transaction and stays
RolledBackKeepsRecord(records, row_id, t) ==
    IF t.record # <<>> THEN [records EXCEPT ![row_id] = t.record[1]] ELSE records

\* what the store holds once the transaction t is dropped without a commit
RolledBackRecords(records, row_id, t) == records
RolledBackCoins(coins, t) == coins

\* main.rs:277-281: tx.commit(), then the next record
TxCommit ==
    /\ pc = "commit"
    /\ pay_records' = CommittedRecords(pay_records, id, tx[1])
    /\ gold_coins' = CommittedCoins(gold_coins, tx[1])
    /\ settlements' = [settlements EXCEPT ![id] = @ + 1]
    /\ tx' = <<>>
    /\ id' = 0
    /\ i' = i + 1
    /\ pc' = "record"
    /\ UNCHANGED <<chain, current_url, pending_amounts, last_transaction_id,
                   transaction_data>>
    /\ UNCHANGED shutdown

TxStages == {"begin", "select", "update_record", "update_user", "commit"}

\* main.rs:236, 246, 266, 274, 277: a step of the settlement fails; `?` drops
\* the transaction (rollback) and returns the error from main
SettlementFails ==
    /\ pc \in TxStages
    /\ pay_records' = (IF tx = <<>> THEN pay_records
                       ELSE RolledBackRecords(pay_records, id, tx[1]))
    /\ gold_coins' = (IF tx = <<>> THEN gold_coins ELSE RolledBackCoins(gold_coins, tx[1]))
    /\ pc' = "err_settle"
    /\ Locals
    /\ UNCHANGED <<chain, history>>
    /\ UNCHANGED shutdown

\* the process is started again after main returned an error
Restart ==
    /\ pc \in Exited
    /\ pc' = "main"
    /\ UNCHANGED <<store, chain, pass, history>>
    /\ UNCHANGED shutdown

\* -------------------------------------------------------- the environment
\* a row is inserted into pay_records (is_pay = 0)
CreateObligation ==
    /\ Len(pay_records) < MaxRecords
    /\ \E u \in Users, a \in ExpectedAmounts :
         pay_records' = Append(pay_records, Row(u, a, Len(chain) + 1))
    /\ UNCHANGED <<gold_coins, chain, pc, pass, history>>
    /\ UNCHANGED shutdown

\* the events of the feed that the filter of main.rs:165-189 would skip or
\* that carry no decimal value
Defects(events) == {k \in 1 .. Len(events) : [from |-> events[k].from, to |-> events[k].to,
                                               value |-> events[k].value,
                                               token_info |-> events[k].token_info]
                                                  \in DefectBodies}

\* a transfer event of a new transaction is confirmed
TransferArrives ==
    /\ Len(chain) < MaxTransfers
    /\ \E body \in RawBodies :
         /\ body \in DefectBodies => Cardinality(Defects(chain)) < MaxDefects
         /\ chain' = Append(chain, Event(Len(chain) + 1, body))
    /\ UNCHANGED <<store, pc, pass, history>>
    /\ UNCHANGED shutdown

\* the feed carries the newest event once more (a repeated record)
EventRepeats ==
    /\ Len(chain) < MaxTransfers
    /\ chain # <<>>
    /\ Len(chain) \in Defects(chain) => Cardinality(Defects(chain)) < MaxDefects
    /\ chain' = Append(chain, chain[Len(chain)])
    /\ UNCHANGED <<store, pc, pass, history>>
    /\ UNCHANGED shutdown

\* the steps of the process (and its restart)
Program ==
    \/ MainCheck
    \/ Sleep
    \/ LoadPending
    \/ QueryFails
    \/ FetchPage
    \/ FetchNoSuccess
    \/ FetchError
    \/ ProcessRecord
    \/ PageEnd
    \/ TxBegin
    \/ TxSelect
    \/ TxUpdateRecord
    \/ TxUpdateUser
    \/ TxCommit
    \/ SettlementFails
    \/ Restart

Next ==
    \/ Program
    \/ CreateObligation
    \/ TransferArrives
    \/ EventRepeats

Spec == Init /\ [][Next]_vars

\* ------------------------------------------------- rows of a small amount
\* pay_token of a new row: 0.0005
Amount0_0005 == 5 * Pow10(Scale - 4)
SmallAmounts == {Amount0_0005}

\* a row of a small amount is inserted into pay_records (is_pay = 0)
CreateSmallObligation ==
    /\ Len(pay_records) < MaxRecords
    /\ \E u \in Users, a \in SmallAmounts :
         pay_records' = Append(pay_records, Row(u, a, Len(chain) + 1))
    /\ UNCHANGED <<gold_coins, chain, pc, pass, history, shutdown>>

NextSmall ==
    \/ Program
    \/ CreateSmallObligation
    \/ TransferArrives
    \/ EventRepeats

\* the program with rows of small amounts
SpecSmall == Init /\ [][NextSmall]_vars

\* ------------------------------------------------------------- shutdown
\* the operator asks the loop to stop; no statement of main.rs reads the request
RaiseShutdown ==
    /\ ~shutdown
    /\ shutdown' = TRUE
    /\ UNCHANGED <<store, chain, pc, pass, history>>

NextShutdown ==
    \/ Next
    \/ RaiseShutdown

\* the program with an operator who may ask for a shutdown
SpecShutdown == Init /\ [][NextShutdown]_vars

\* ------------------------------------------------- a feed and store that answer
\* the steps of the process when every request of the feed and every call of
\* the store succeeds
ProgramLive ==
    \/ MainCheck
    \/ Sleep
    \/ LoadPending
    \/ FetchPage
    \/ ProcessRecord
    \/ PageEnd
    \/ TxBegin
    \/ TxSelect
    \/ TxUpdateRecord
    \/ TxUpdateUser
    \/ TxCommit

\* a transfer event of a new transaction, with no defect, is confirmed
TransferLive ==
    /\ Len(chain) < MaxTransfers
    /\ \E body \in GoodBodies :
         chain' = Append(chain, Event(Len(chain) + 1, body))
    /\ UNCHANGED <<store, pc, pass, history, shutdown>>

\* a row of the first user is inserted into pay_records (is_pay = 0)
CreateObligationLive ==
    /\ Len(pay_records) < MaxRecords
    /\ \E a \in ExpectedAmounts :
         pay_records' = Append(pay_records, Row(1, a, Len(chain) + 1))
    /\ UNCHANGED <<gold_coins, chain, pc, pass, history, shutdown>>

NextLive ==
    \/ ProgramLive
    \/ CreateObligationLive
    \/ TransferLive

\* the task of main is always scheduled again: it takes its next step
SpecLive == Init /\ [][NextLive]_vars /\ WF_vars(ProgramLive)

\* ================================================================ claims
CurrentRecord == transaction_data.data[i]

\* the process is at a record of the page that passes the stop test and the filter
Observing ==
    /\ pc = "record"
    /\ i <= Len(transaction_data.data)
    /\ ~AtLastTransaction(CurrentRecord)
    /\ ~Skipped(CurrentRecord)

\* the step is one of the process, not of the environment
ProcessStep == pc' # pc \/ i' # i

PendingIds(pending) == {pending[p][1] : p \in 1 .. Len(pending)}

\* x with the digits beyond the third decimal place cut off, not rounded
TruncatedTo3(x) ==
    LET unit == Pow10(Scale - 3)
    IN  IF x >= 0 THEN x - (x % unit) ELSE -((-x) - ((-x) % unit))

\* the rule of the Matcher, in the words of the specification
SpecCandidate(expected_amount, amount) ==
    /\ expected_amount - 2 * Pow10(Scale) <= amount
    /\ amount < expected_amount
    /\ TruncatedTo3(amount) = TruncatedTo3(expected_amount)

\* C1: no row of pay_records is settled (and its owner credited) more than
\* once, whatever passes, repeated feed records, failures and restarts occur.
C1_SettledAtMostOnce == \A r \in 1 .. MaxRecords : settlements[r] <= 1

\* a later pass meets again, with no stop boundary, the transfer that settled a row
C1_Witness ==
    /\ Observing
    /\ \E r \in Settled : /\ settlements[r] = 1
                          /\ pay_records[r].transaction_id = <<CurrentRecord.tx_id>>

C3_FirstMatch ==
    [][/\ \A p, q \in 1 .. Len(pending_amounts') :
             p < q => pending_amounts'[p][1] < pending_amounts'[q][1]
       /\ (Observing /\ pc' = "begin") =>
             LET cands == {pending_amounts[p][1] : p \in
                             {q \in 1 .. Len(pending_amounts) :
                                 IsCandidate(pending_amounts[q][2], ReadableOf(CurrentRecord))}}
             IN  /\ id' = Min(cands)
                 /\ PendingIds(pending_amounts') = PendingIds(pending_amounts) \ {id'}
                 /\ i' = i
       /\ (pc \notin {"load"} /\ pc' \notin {"main"} \cup Exited) =>
             PendingIds(pending_amounts') \subseteq PendingIds(pending_amounts)
       /\ pc' \in TxStages => id' \notin PendingIds(pending_amounts')
       /\ settlements' # settlements =>
             /\ \E r \in Ids : settlements' = [settlements EXCEPT ![r] = @ + 1]
             /\ i' = i + 1 /\ pc' = "record"]_vars

\* a row was matched and a further candidate for the same transfer stays pending
C3_Witness ==
    /\ pc = "begin"
    /\ \E p \in 1 .. Len(pending_amounts) :
          /\ IsCandidate(pending_amounts[p][2], ReadableOf(CurrentRecord))
          /\ pending_amounts[p][1] > id


\* the observed amount 98.5
Amount98_5 == 985 * Pow10(Scale - 1)

\* rows 1 and 2 are pending with expected amount a each, and a transfer of
\* amount t is observed
TwoPending(a, t) ==
    /\ Observing
    /\ pending_amounts = <<<<1, a>>, <<2, a>>>>
    /\ ReadableOf(CurrentRecord) = t

\* C4 as stated: with rows 1 and 2 pending at 100 each, a transfer of 98.5
\* matches row 1 and leaves row 2 pending and unsettled.
C4_Original ==
    [][(TwoPending(Amount100, Amount98_5) /\ ProcessStep) =>
          /\ pc' = "begin" /\ id' = 1
          /\ pending_amounts' = <<<<2, Amount100>>>>
          /\ pay_records'[2].is_pay = 0]_vars

\* C4 (amended): with rows 1 and 2 pending at 100 each, a transfer of 98.5 is in
\* the range [98, 100) but differs from 100 after truncation to 3 decimals: no
\* row is matched and both stay unsettled.  With rows 1 and 2 pending at
\* 100.0005 each, a transfer of 100.0002 matches row 1 and row 2 stays pending
\* and unsettled.
C4_NoMatchAt98_5 ==
    [][/\ (TwoPending(Amount100, Amount98_5) /\ ProcessStep) =>
             /\ pc' = "record" /\ i' = i + 1 /\ id' = 0
             /\ pending_amounts' = pending_amounts
             /\ store' = store
             /\ pay_records[1].is_pay = 0 /\ pay_records[2].is_pay = 0
       /\ (TwoPending(Amount100_0005, Amount100_0005 - 3 * Pow10(Scale - 4)) /\ ProcessStep) =>
             /\ pc' = "begin" /\ id' = 1
             /\ pending_amounts' = <<<<2, Amount100_0005>>>>
             /\ pay_records'[2].is_pay = 0]_vars

\* the transfer of 98.5 has been passed over with rows 1 and 2 still pending at 100
C4_Witness ==
    /\ pc = "record"
    /\ i > 1
    /\ i - 1 <= Len(transaction_data.data)
    /\ pending_amounts = <<<<1, Amount100>>, <<2, Amount100>>>>
    /\ ~Skipped(transaction_data.data[i - 1])
    /\ ReadableOf(transaction_data.data[i - 1]) = Amount98_5
    /\ pay_records[1].is_pay = 0 /\ pay_records[2].is_pay = 0

\* C5: the commit of a settlement leaves the row settled with the id of the
\* transfer, with snapshots post = pre + observed amount where pre is the
\* balance of the owner in the store, and adds the observed amount (not the
\* expected one) to the balance of the owner and to no other balance.
C5_SettlementEffect ==
    [][settlements' # settlements =>
         LET row == pay_records'[id]
             owner == pay_records[id].user_id
             amount == ReadableOf(CurrentRecord)
         IN  /\ row.is_pay = 1
             /\ row.transaction_id = <<CurrentRecord.tx_id>>
             /\ row.user_id = owner
             /\ row.pay_before_gold_coins = <<gold_coins[owner]>>
             /\ row.pay_after_gold_coins = <<gold_coins[owner] + amount>>
             /\ gold_coins'[owner] = gold_coins[owner] + amount
             /\ amount # pay_records[id].pay_token
             /\ \A u \in Users \ {owner} : gold_coins'[u] = gold_coins[u]
             /\ \A r \in Ids \ {id} : pay_records'[r] = pay_records[r]]_vars

\* a row is settled and the balance of its owner has moved by the observed amount
C5_Witness ==
    \E r \in Settled :
        /\ pay_records[r].transaction_id # <<>>
        /\ gold_coins[pay_records[r].user_id] =
              InitialGoldCoins(pay_records[r].user_id) + pay_records[r].pay_token

RECURSIVE Credited(_, _)
\* the amounts written to the settled rows 1 .. n of user u
Credited(u, n) ==
    IF n = 0 THEN 0
    ELSE Credited(u, n - 1) +
         (IF pay_records[n].user_id = u /\ pay_records[n].is_pay = 1
          THEN pay_records[n].pay_token ELSE 0)

\* every settled row is credited and every credit belongs to a settled row
StoreConsistent ==
    /\ \A u \in Users : gold_coins[u] = InitialGoldCoins(u) + Credited(u, Len(pay_records))
    /\ \A r \in Ids : settlements[r] = pay_records[r].is_pay

\* a step of the settlement has failed
SettlementFailed == pc \in TxStages /\ pc' \notin TxStages /\ settlements' = settlements

\* C6: a settlement is all or nothing: in every state of the store a row is
\* settled exactly when its credit is in the balance of its owner; a failed
\* step of the settlement leaves the store as it was, with the row unsettled;
\* and every load of a pass takes all the unsettled rows.
C6_AllOrNothing ==
    [][/\ StoreConsistent'
       /\ SettlementFailed =>
             /\ store' = store
             /\ pay_records'[id].is_pay = 0
       /\ (pc = "load" /\ ProcessStep /\ pc' \notin Exited) =>
             PendingIds(pending_amounts') = Unsettled]_vars

\* the process has ended with the error of a settlement: the row is unsettled
\* and no balance has moved
C6_Witness ==
    /\ pc = "err_settle"
    /\ Unsettled # {}
    /\ Settled = {}
    /\ \A u \in Users : gold_coins[u] = InitialGoldCoins(u)

\* C7 as stated: a failed settlement ends the settlement of that row only: the
\* pass goes on with the next record and the process does not end.
C7_RecordScoped ==
    [][SettlementFailed =>
          /\ pc' = "record" /\ i' = i + 1
          /\ pending_amounts' = pending_amounts
          /\ last_transaction_id' = last_transaction_id]_vars

\* a request of the feed has failed
FeedFailed == pc = "fetch" /\ pc' \notin {"fetch", "record"}

\* C8 as stated: a failure of the feed ends the pass only: nothing is settled,
\* the process keeps running and sleeps before it asks the feed again.
C8_BackToIdle ==
    [][FeedFailed => (pc' = "sleep" /\ store' = store)]_vars

\* the stop boundary, in the words of the specification: the transfer id of
\* the settled row with the largest id below the smallest unsettled id
SpecBoundary ==
    LET below == {r \in Settled : r < Min(Unsettled)}
    IN  IF below = {} THEN <<>> ELSE pay_records[Max(below)].transaction_id

\* C9: the stop boundary of a pass is the transfer id of the settled row with
\* the largest id below the smallest unsettled id, absent when there is none;
\* at a record with that transfer id the pass ends at once: nothing is matched,
\* no further record or page is handled, the store is unchanged and the rows
\* still pending stay unsettled.
C9_StopBoundary ==
    [][/\ (pc = "load" /\ pc' = "fetch") => last_transaction_id' = SpecBoundary
       /\ (/\ pc = "record" /\ i <= Len(transaction_data.data)
           /\ last_transaction_id = <<CurrentRecord.tx_id>>
           /\ ProcessStep) =>
              /\ pc' = "main"
              /\ transaction_data' = NoPage /\ current_url' = NoUrl
              /\ id' = 0 /\ tx' = <<>>
              /\ store' = store
              /\ \A r \in PendingIds(pending_amounts) : pay_records'[r].is_pay = 0]_vars

\* the boundary record is reached with a later record on the page and a row pending
C9_Witness ==
    /\ pc = "record"
    /\ i < Len(transaction_data.data)
    /\ last_transaction_id = <<CurrentRecord.tx_id>>
    /\ pending_amounts # <<>>
    /\ ~Skipped(transaction_data.data[i + 1])
    /\ Position(pending_amounts, ReadableOf(transaction_data.data[i + 1])) # 0

\* the transfer ids written to the settled rows
UsedTransfers == {pay_records[r].transaction_id : r \in Settled}

\* C10 as stated: when a pass stops at the boundary record, no event of the feed
\* at or behind it is an unused transfer that is a candidate for a row that is
\* still unsettled (and was created before the transfer).
C10_BoundarySound ==
    (/\ pc = "record" /\ i <= Len(transaction_data.data)
     /\ AtLastTransaction(CurrentRecord)) =>
        ~ \E k \in 1 .. (transaction_data.top - i + 1), r \in Unsettled :
              /\ k >= pay_records[r].create_time
              /\ <<chain[k].tx_id>> \notin UsedTransfers
              /\ ~Skipped(chain[k])
              /\ SpecCandidate(pay_records[r].pay_token, ReadableOf(chain[k]))

\* C11: with no unsettled row the loop asks the feed nothing: when its query
\* returns it goes to the sleep, then checks the store again; the feed is asked
\* only in a pass whose load returned at least one row, and every row it holds
\* is unsettled.
C11_NoFeedWhenIdle ==
    [][/\ (pc = "main" /\ Unsettled = {} /\ ProcessStep /\ pc' \notin Exited) =>
             /\ pc' = "sleep"
             /\ store' = store
       /\ (pc = "sleep" /\ ProcessStep) =>
             /\ pc' = "main"
             /\ store' = store
       /\ (pc = "load" /\ pc' = "fetch") =>
             /\ Unsettled # {}
             /\ PendingIds(pending_amounts') = Unsettled
       /\ pc' = "fetch" =>
             /\ pending_amounts' # <<>>
             /\ PendingIds(pending_amounts') \subseteq {r \in Ids : pay_records'[r].is_pay = 0}]_vars

\* the loop sleeps while the feed holds events and every row is settled
C11_Witness ==
    /\ pc = "sleep"
    /\ Unsettled = {}
    /\ Settled # {}
    /\ chain # <<>>

\* C13 as stated: no step, the settlement included, changes the pay_token
\* (expected amount), the user_id or the create_time of a row.
C13_Original ==
    [][\A r \in Ids :
          /\ pay_records'[r].pay_token = pay_records[r].pay_token
          /\ pay_records'[r].user_id = pay_records[r].user_id
          /\ pay_records'[r].create_time = pay_records[r].create_time]_vars

\* C13 (amended): the id, user_id and create_time of a row never change, and
\* its pay_token does not change while the row is unsettled; the settlement of
\* the row, and no other step, overwrites pay_token with the observed amount
\* of the transfer, which is smaller than the expected amount it replaces.
C13_TokenOverwritten ==
    [][/\ Len(pay_records') >= Len(pay_records)
       /\ \A r \in Ids :
             /\ pay_records'[r].user_id = pay_records[r].user_id
             /\ pay_records'[r].create_time = pay_records[r].create_time
             /\ pay_records'[r].pay_token # pay_records[r].pay_token =>
                   /\ settlements'[r] = settlements[r] + 1
                   /\ pay_records[r].is_pay = 0
                   /\ r = id
             /\ pay_records'[r].is_pay = 0 =>
                   pay_records'[r].pay_token = pay_records[r].pay_token
       /\ settlements' # settlements =>
             /\ pay_records'[id].pay_token = ReadableOf(CurrentRecord)
             /\ pay_records'[id].pay_token < pay_records[id].pay_token]_vars

\* a settled row carries an amount no row was created with
C13_Witness ==
    \E r \in Settled :
        /\ settlements[r] = 1
        /\ pay_records[r].pay_token \notin ExpectedAmounts

\* C14: a row is settled exactly when it carries a transaction_id; a settled
\* row stays settled and keeps its transaction_id; is_pay only moves from 0 to 1.
C14_StateAndTransferId ==
    [][/\ \A r \in 1 .. Len(pay_records') :
             /\ pay_records'[r].is_pay \in {0, 1}
             /\ pay_records'[r].is_pay = 1 <=> pay_records'[r].transaction_id # <<>>
       /\ \A r \in Settled :
             /\ pay_records'[r].is_pay = 1
             /\ pay_records'[r].transaction_id = pay_records[r].transaction_id
       /\ \A r \in Unsettled :
             pay_records'[r].is_pay = 1 => settlements'[r] = settlements[r] + 1]_vars

\* a row with a larger id is settled while a row with a smaller id is not
C14_Witness ==
    \E r \in Settled, q \in Unsettled :
        /\ q < r
        /\ pay_records[r].transaction_id # <<>>
        /\ pay_records[q].transaction_id = <<>>

\* the for loop has passed the last record of the page
AtPageEnd == pc = "record" /\ i > Len(transaction_data.data)

\* what the claims C16 and C16 (amended) share: after the last record of a
\* page, an empty pending set ends the pass with success; otherwise the next
\* request carries the next link of the page just handled and returns the page
\* it names; and a page without a next link ends the pass.
PerPageStops ==
    /\ (AtPageEnd /\ ProcessStep) =>
          IF pending_amounts = <<>>
          THEN pc' = "main" /\ store' = store
          ELSE IF transaction_data.next # <<>>
          THEN /\ pc' = "fetch"
               /\ current_url' = [current_url EXCEPT !.fingerprint = transaction_data.next[1]]
               /\ pending_amounts' = pending_amounts
               /\ store' = store
          ELSE pc' = "main" /\ store' = store
    /\ (pc = "fetch" /\ pc' = "record" /\ current_url.fingerprint # 0) =>
          /\ transaction_data'.top = current_url.fingerprint
          /\ transaction_data'.data # <<>>
          /\ transaction_data'.data[1] = chain[current_url.fingerprint]
    /\ pc' = "fetch" => pending_amounts' # <<>>

\* C16 as stated: the empty pending set is tested per record: once it is empty
\* no further record of the page is handled.
C16_Original ==
    [][/\ PerPageStops
       /\ (pc = "record" /\ ~AtPageEnd /\ ProcessStep) => pending_amounts # <<>>]_vars

\* C16 (amended): the empty pending set is tested once per page, after its last
\* record: the records that follow the last settlement on the page still go
\* through the stop test and the filter, with no effect on the store; then the
\* pass ends with success and no further page is fetched.  Otherwise the next
\* page requested is the one named by the next link of the page just handled,
\* and a page without a next link ends the pass.
C16_StopsPerPage ==
    [][/\ PerPageStops
       /\ (pc = "record" /\ ~AtPageEnd /\ pending_amounts = <<>> /\ ProcessStep) =>
             /\ store' = store
             /\ \/ pc' = "record" /\ i' = i + 1 /\ pending_amounts' = <<>>
                                  /\ transaction_data' = transaction_data
                \/ pc' = "main" /\ AtLastTransaction(CurrentRecord)]_vars

\* the last pending row was settled and a record of the page is still to come
C16_Witness ==
    /\ pc = "record"
    /\ ~AtPageEnd
    /\ pending_amounts = <<>>
    /\ Settled # {}
    /\ ~AtLastTransaction(CurrentRecord)

\* the code is inside fetch_and_process_transactions
InPass == pc \in {"load", "fetch", "record"} \cup TxStages

\* the place of a stage of the settlement, counted from its end
StageRank(stage) ==
    CASE stage = "begin" -> 5
      [] stage = "select" -> 4
      [] stage = "update_record" -> 3
      [] stage = "update_user" -> 2
      [] stage = "commit" -> 1

\* a measure of what is left of the pass: the timestamp of the newest event
\* still to handle, then the place inside the handling of that event
Rank ==
    CASE pc = "load" -> 12 * (MaxTransfers + 2)
      [] pc = "fetch" -> 12 * (IF current_url.fingerprint = 0 THEN MaxTransfers + 1
                               ELSE current_url.fingerprint) + 11
      [] pc = "record" /\ ~AtPageEnd -> 12 * (transaction_data.top - i + 1) + 6
      [] AtPageEnd /\ transaction_data.data = <<>> -> 12 * transaction_data.top + 10
      [] AtPageEnd /\ transaction_data.data # <<>> ->
             12 * (transaction_data.top - Len(transaction_data.data) + 1)
      [] pc \in TxStages -> 12 * (transaction_data.top - i + 1) + StageRank(pc)
      [] OTHER -> 0

\* C17: every pass ends: each step of the process inside a pass either ends
\* the pass or lowers a measure that is never negative, and no step of the
\* environment raises it.  A pass that returns to the loop of main does so at
\* the stop boundary, at a page without a next link, with the pending set
\* empty, or after a failed request of the feed.
C17_PassTerminates ==
    [][InPass =>
         /\ Rank >= 0
         /\ IF ProcessStep
            THEN \/ pc' \in Exited
                 \/ /\ pc' = "main"
                    /\ \/ pc = "record" /\ ~AtPageEnd /\ AtLastTransaction(CurrentRecord)
                       \/ AtPageEnd /\ pending_amounts # <<>> /\ transaction_data.next = <<>>
                       \/ AtPageEnd /\ pending_amounts = <<>>
                       \/ pc = "fetch"
                 \/ InPass' /\ Rank' < Rank
            ELSE Rank' = Rank /\ InPass']_vars

\* a pass is at the end of its second page, which has no next link, with a row
\* still pending
C17_Witness ==
    /\ AtPageEnd
    /\ current_url.fingerprint # 0
    /\ transaction_data.next = <<>>
    /\ pending_amounts # <<>>

\* C18 as stated: no two settled rows carry the same transaction_id.
C18_TransferSettlesOnce ==
    \A r, q \in Settled :
        r # q => pay_records[r].transaction_id # pay_records[q].transaction_id

RECURSIVE ObservedSum(_, _, _, _)
\* the observed amounts of the transfers named by the settled rows 1 .. n of
\* user u in records, read from the events of the feed
ObservedSum(records, events, u, n) ==
    IF n = 0 THEN 0
    ELSE ObservedSum(records, events, u, n - 1) +
         (IF records[n].user_id = u /\ records[n].is_pay = 1
          THEN ReadableOf(events[records[n].transaction_id[1]]) ELSE 0)

\* C20: the balance of every user is its initial balance plus the observed
\* amounts of the transfers that settled its rows; no balance ever decreases;
\* a balance changes only in the commit of a settlement, and then only the
\* balance of the owner of the settled row.
C20_BalanceConservation ==
    [][/\ \A u \in Users :
             /\ gold_coins'[u] = InitialGoldCoins(u) +
                                 ObservedSum(pay_records', chain', u, Len(pay_records'))
             /\ gold_coins'[u] >= gold_coins[u]
             /\ gold_coins[u] >= 0
       /\ gold_coins' # gold_coins =>
             /\ pc = "commit" /\ pc' = "record"
             /\ settlements' = [settlements EXCEPT ![id] = @ + 1]
             /\ \A u \in Users : gold_coins'[u] # gold_coins[u] => u = pay_records[id].user_id]_vars

\* two rows of one user are settled and its balance holds both transfers
C20_Witness ==
    \E u \in Users :
        /\ Cardinality({r \in Settled : pay_records[r].user_id = u}) = 2
        /\ gold_coins[u] = InitialGoldCoins(u) +
                           ObservedSum(pay_records, chain, u, Len(pay_records))
        /\ gold_coins[u] > InitialGoldCoins(u) + Amount100

\* the value string is no decimal number
Unparsable(s) == ~(Len(s) > 0 /\ \A k \in 1 .. Len(s) : s[k] \in Digits)

\* the defects of a raw record, in the words of the specification
SpecDefect(transaction) ==
    \/ transaction.value = <<>>
    \/ Unparsable(transaction.value[1])
    \/ transaction.to = <<>>
    \/ transaction.to # <<WatchedAddress>>
    \/ transaction.token_info = <<>>
    \/ transaction.token_info[1].symbol # "USDT"

\* C12 as stated: a record whose value is absent or no decimal, whose to is
\* absent or not the watched address, or whose token_info is absent or of
\* another symbol is passed over: it is not given to the matching and settles
\* nothing; every other record is given to the matching.
C12_DefectsDiscarded ==
    [][(pc = "record" /\ ~AtPageEnd /\ ~AtLastTransaction(CurrentRecord) /\ ProcessStep) =>
          IF SpecDefect(CurrentRecord)
          THEN /\ pc' = "record" /\ i' = i + 1 /\ id' = 0
               /\ pending_amounts' = pending_amounts
               /\ store' = store
          ELSE IF \E p \in 1 .. Len(pending_amounts) :
                     SpecCandidate(pending_amounts[p][2], ReadableOf(CurrentRecord))
          THEN pc' = "begin"
          ELSE pc' = "record" /\ i' = i + 1]_vars

\* C15 as stated: once a shutdown is requested the loop sends no further
\* request to the feed, starts no further settlement and goes into no further
\* sleep.
C15_ShutdownHonoured ==
    [][shutdown =>
          /\ ~(pc = "fetch" /\ pc' = "record")
          /\ ~(pc = "record" /\ pc' = "begin")
          /\ ~(pc = "main" /\ pc' = "sleep")]_vars

\* row r is unsettled and the feed holds, in the window of the query, a
\* transfer that no settled row carries and that is a candidate for r
Matchable(r) ==
    /\ r \in Unsettled
    /\ \E k \in pay_records[r].create_time .. Len(chain) :
          /\ <<chain[k].tx_id>> \notin UsedTransfers
          /\ ~Skipped(chain[k])
          /\ SpecCandidate(pay_records[r].pay_token, ReadableOf(chain[k]))

\* C19 as stated, in the form that leaves the rivalry of two rows for one
\* transfer aside: when every request of the feed and every call of the store
\* succeeds, no row stays for ever unsettled with an unused matching transfer
\* in its window.
C19_EventuallySettled ==
    \A r \in 1 .. MaxRecords : Matchable(r) ~> ~Matchable(r)

====
